---------------------------- MODULE Spec2Model ----------------------------
(***************************************************************************)
(* FanBlitz analytics engine (src/fanblitz_main.cpp): the record store of  *)
(* PerformanceAnalyzer, its indices, and the queries computed from them.   *)
(*                                                                         *)
(* Representation.                                                         *)
(*  - A std::string that the code orders (player name, team, position,     *)
(*    season: keys of std::map, operands of <) is a natural number, its    *)
(*    rank in the lexical order of the strings in use.  Metric names are   *)
(*    only compared for equality and stay strings.                         *)
(*  - A double is a binary floating-point number <<m, e>> of value         *)
(*    m * 2^e, the significand m of exactly Precision bits (or <<0, 0>>).  *)
(*    Every operation computes the exact result and rounds it to the      *)
(*    nearest such number, ties to the even significand, as IEEE 754      *)
(*    does with 53 bits.  The exponent range is that of a double: a       *)
(*    result above it is an infinity <<1, EMax + 1>> or <<-1, EMax + 1>>,  *)
(*    a result below the normal range keeps fewer significand bits, and    *)
(*    an invalid operation gives the NaN <<0, EMax + 1>>.  There is one    *)
(*    zero: the program never divides by a zero and its comparisons do    *)
(*    not tell the two zeros of a double apart.                            *)
(*  - std::sort leaves the relative order of equivalent elements           *)
(*    unspecified: a sort is the SET of orders it may produce, and an      *)
(*    operation that sorts chooses one of them.                            *)
(***************************************************************************)
EXTENDS Integers, Sequences, FiniteSets, TLC

VARIABLES
    all_players,      \* PerformanceAnalyzer::all_players
    players_by_name,  \* PerformanceAnalyzer::players_by_name
    players_by_team,  \* PerformanceAnalyzer::players_by_team
    pc,               \* "constructed" until the first load_data returns, then "loaded"
    ret               \* the last completed call: [op, arg, val]

vars == <<all_players, players_by_name, players_by_team, pc, ret>>

store == <<all_players, players_by_name, players_by_team>>

-----------------------------------------------------------------------------
(* Bounds of the model *)

\* bits of the significand of a double
Precision == 7
\* rows of an input file under SpecStore
MaxStoreRows == 2
\* rows of an input file under SpecRank
MaxRankRows == 4
\* rows of an input file under SpecTeam
MaxTeamRows == 3
\* rows of an input file under SpecSeries
MaxSeriesRows == 3
\* rows of an input file under SpecCorr
MaxCorrRows == 4
\* rows of an input file under SpecPosition
MaxPositionRows == 3
\* rows of each player of an input file under SpecSym
MaxPlayerRows == 3
\* characters on standard input under SpecMain
MaxInputLen == 4
\* lines of an input file under SpecParse
MaxFileLines == 3
\* length of the vectors given to StatisticalAnalyzer under SpecStats
MaxDataLen == 3
\* largest window_size asked of calculate_rolling_average
MaxWindow == 3
\* length of each of the two vectors given to calculate_correlation under SpecPairs
MaxPairLen == 3
\* ratings of one player in an input file under SpecExample
MaxExampleRows == 4
\* largest top_n asked of get_top_consistent_players
MaxTopN == 3

(* Program constants *)

\* size_t values wrap at SizeModulus. The program's is 2^64; the model checker's
\* integers are 32-bit, and every size and index of the model is far below both.
SizeModulus == 2 ^ 30

-----------------------------------------------------------------------------
(* Generic helpers *)

Min(a, b) == IF a < b THEN a ELSE b

Range(s) == {s[i] : i \in DOMAIN s}

SeqsUpTo(S, n) == UNION {[1..k -> S] : k \in 0..n}

RECURSIVE SumSeq(_)
SumSeq(s) == IF s = <<>> THEN 0 ELSE Head(s) + SumSeq(Tail(s))

\* the keys of a std::map in iteration order: ascending
RECURSIVE KeysAsc(_)
KeysAsc(K) ==
    IF K = {} THEN <<>>
    ELSE LET m == CHOOSE x \in K : \A y \in K : x <= y
         IN  <<m>> \o KeysAsc(K \ {m})

\* floor of the square root of an integer, by bisection on [lo, hi]
RECURSIVE SqrtBetween(_, _, _)
SqrtBetween(x, lo, hi) ==
    IF lo >= hi THEN lo
    ELSE LET mid == (lo + hi + 1) \div 2
         IN  IF mid * mid <= x THEN SqrtBetween(x, mid, hi)
                               ELSE SqrtBetween(x, lo, mid - 1)

Sqrt(x) == SqrtBetween(x, 0, Min(x, 46340))

\* static_cast<size_t>(int)
ToSizeT(n) == n % SizeModulus

\* the orders std::sort may leave the indices `rest` in, `before` holding the
\* pairs <<i, j>> with comp(seq[i], seq[j]): each next element is one that no
\* remaining element precedes
RECURSIVE SortedOrders(_, _)
SortedOrders(rest, before) ==
    IF rest = {} THEN {<<>>}
    ELSE UNION {
           {<<m>> \o tl : tl \in SortedOrders(rest \ {m}, before)} :
             m \in {i \in rest : \A j \in rest : <<j, i>> \notin before} }

\* std::sort(seq.begin(), seq.end(), comp)
SortOutcomes(seq, before) ==
    {[i \in 1..Len(seq) |-> seq[ord[i]]] : ord \in SortedOrders(DOMAIN seq, before)}

-----------------------------------------------------------------------------
(* double *)

Abs(n) == IF n < 0 THEN 0 - n ELSE n

Sign(n) == IF n < 0 THEN 0 - 1 ELSE IF n > 0 THEN 1 ELSE 0

\* the number of bits of a natural number below 2^w, for w = 1, 2, 4, 8, 16, 32
BitLen1(n) == IF n = 0 THEN 0 ELSE 1
BitLen2(n) == IF n < 2 THEN BitLen1(n) ELSE 1 + BitLen1(n \div 2)
BitLen4(n) == IF n < 4 THEN BitLen2(n) ELSE 2 + BitLen2(n \div 4)
BitLen8(n) == IF n < 16 THEN BitLen4(n) ELSE 4 + BitLen4(n \div 16)
BitLen16(n) == IF n < 256 THEN BitLen8(n) ELSE 8 + BitLen8(n \div 256)
BitLen(n) == IF n < 65536 THEN BitLen16(n) ELSE 16 + BitLen16(n \div 65536)

\* the exponent of the most significant bit of the largest double
MaxExp == 1023

\* the exponent of the most significant bit of the smallest normal double
MinExp == 0 - 1022

\* the exponents e of the finite doubles <<m, e>>
EMax == MaxExp - (Precision - 1)

EMin == MinExp - (Precision - 1)

\* 0.0
Zero == <<0, 0>>

\* infinity of this sign (1 or -1), and the NaN
Inf(sign) == <<sign, EMax + 1>>

NaN == <<0, EMax + 1>>

IsFinite(a) == a[2] <= EMax

IsNaN(a) == a = NaN

\* The operators below bind their operands to values by applying a function
\* to them, [a \in S |-> ...][x], so that an operand is computed once.

\* the number of low bits that rounding n * 2^e drops
ShiftOf(n, e) ==
    LET bits == BitLen(Abs(n))
    IN  IF e + bits - Precision < EMin THEN EMin - e ELSE bits - Precision

\* n * 2^e rounded at bit `shift` to m * 2^(e + shift), ties to the even m
RoundAt(n, e, shift) ==
    IF shift <= 0
    THEN IF e + shift > EMax THEN Inf(Sign(n))
         ELSE <<n * 2 ^ (0 - shift), e + shift>>
    ELSE IF shift > 30 THEN Zero
    ELSE LET q == Abs(n) \div (2 ^ shift)
             r == Abs(n) % (2 ^ shift)
             half == 2 ^ (shift - 1)
             m == IF r > half \/ (r = half /\ q % 2 = 1) THEN q + 1 ELSE q
         IN  IF m = 0 THEN Zero
             ELSE IF m = 2 ^ Precision
             THEN IF e + shift + 1 > EMax THEN Inf(Sign(n))
                  ELSE <<Sign(n) * 2 ^ (Precision - 1), e + shift + 1>>
             ELSE IF e + shift > EMax THEN Inf(Sign(n))
             ELSE <<Sign(n) * m, e + shift>>

\* the double nearest to the exact n * 2^e, a tie going to the even significand:
\* below the normal range the significand has fewer bits, above it is infinite
Round(n, e) ==
    IF n = 0 THEN Zero
    ELSE [shift \in Int |-> RoundAt(n, e, shift)][ShiftOf(n, e)]

\* -a
FNeg(a) == <<0 - a[1], a[2]>>

\* a + b: an operand below a quarter of the other's last place changes nothing
Sum(a, b) ==
    IF ~IsFinite(a) \/ ~IsFinite(b)
    THEN IF IsNaN(a) \/ IsNaN(b) THEN NaN
         ELSE IF ~IsFinite(a) /\ ~IsFinite(b) THEN (IF a = b THEN a ELSE NaN)
         ELSE IF IsFinite(a) THEN b ELSE a
    ELSE IF a[1] = 0 THEN b
    ELSE IF b[1] = 0 THEN a
    ELSE IF a[2] - b[2] > Precision + 2 THEN a
    ELSE IF b[2] - a[2] > Precision + 2 THEN b
    ELSE IF a[2] <= b[2]
    THEN [n \in Int |-> Round(n, a[2])][a[1] + b[1] * 2 ^ (b[2] - a[2])]
    ELSE [n \in Int |-> Round(n, b[2])][a[1] * 2 ^ (a[2] - b[2]) + b[1]]

\* x + y
FAdd(x, y) == [a \in Int \X Int, b \in Int \X Int |-> Sum(a, b)][x, y]

\* x - y
FSub(x, y) == [a \in Int \X Int, b \in Int \X Int |-> Sum(a, <<0 - b[1], b[2]>>)][x, y]

\* a * b
Product(a, b) ==
    IF ~IsFinite(a) \/ ~IsFinite(b)
    THEN IF a[1] = 0 \/ b[1] = 0 THEN NaN ELSE Inf(Sign(a[1]) * Sign(b[1]))
    ELSE [n \in Int |-> Round(n, a[2] + b[2])][a[1] * b[1]]

\* x * y
FMul(x, y) == [a \in Int \X Int, b \in Int \X Int |-> Product(a, b)][x, y]

\* a nonzero finite double with its significand widened to Precision bits
Normal(a) ==
    [k \in Int |-> <<Abs(a[1]) * 2 ^ k, a[2] - k>>][Precision - BitLen(Abs(a[1]))]

\* x / y for normal x and y and this sign: the quotient to Precision + 3 bits
\* and a sticky bit, rounded
QuotientOfNormal(sign, x, y) ==
    [n \in Int |-> Round(sign * (2 * (n \div y[1]) + (IF n % y[1] = 0 THEN 0 ELSE 1)),
                         x[2] - y[2] - Precision - 4)][x[1] * 2 ^ (Precision + 3)]

\* a / b; the sign of a zero divisor, which the program never has, is taken as
\* positive
Quotient(a, b) ==
    IF IsNaN(a) \/ IsNaN(b) THEN NaN
    ELSE IF ~IsFinite(a)
    THEN IF ~IsFinite(b) THEN NaN
         ELSE Inf(a[1] * (IF b[1] < 0 THEN 0 - 1 ELSE 1))
    ELSE IF ~IsFinite(b) THEN Zero
    ELSE IF b[1] = 0 THEN (IF a[1] = 0 THEN NaN ELSE Inf(Sign(a[1])))
    ELSE IF a[1] = 0 THEN Zero
    ELSE [x \in Int \X Int, y \in Int \X Int |->
            QuotientOfNormal(Sign(a[1]) * Sign(b[1]), x, y)][Normal(a), Normal(b)]

\* x / y
FDiv(x, y) == [a \in Int \X Int, b \in Int \X Int |-> Quotient(a, b)][x, y]

\* the root of a normal x with x[2] - k even: the root to Precision + 2 bits and
\* a sticky bit, rounded
RootOfNormal(x, k) ==
    [n \in Int, s \in Int |-> Round(2 * s + (IF s * s = n THEN 0 ELSE 1),
                                   (x[2] - k) \div 2 - 1)][x[1] * 2 ^ k, Sqrt(x[1] * 2 ^ k)]

\* the square root of a
Root(a) ==
    IF a[1] = 0 THEN a
    ELSE IF a[1] < 0 THEN NaN
    ELSE IF ~IsFinite(a) THEN a
    ELSE [x \in Int \X Int |->
            RootOfNormal(x, IF (x[2] - Precision) % 2 = 0 THEN Precision + 4
                                                           ELSE Precision + 3)][Normal(a)]

\* std::sqrt(x)
FSqrt(x) == [a \in Int \X Int |-> Root(a)][x]

\* a < b: false when either is a NaN, which makes the difference a NaN
FLess(a, b) == FSub(a, b)[1] < 0

\* x == y
FEq(x, y) == [a \in Int \X Int, b \in Int \X Int |-> a = b /\ ~IsNaN(a)][x, y]

\* x <= y
FLeq(x, y) ==
    [a \in Int \X Int, b \in Int \X Int |-> Sum(a, FNeg(b))[1] < 0 \/ (a = b /\ ~IsNaN(a))][x, y]

\* std::min(x, y): y when y < x, else x
FMin(x, y) ==
    [a \in Int \X Int, b \in Int \X Int |-> IF Sum(b, FNeg(a))[1] < 0 THEN b ELSE a][x, y]

\* static_cast<double>(n) of an integer n, also the implicit conversion
ToDouble(n) == Round(n, 0)

\* the double written num/den as a decimal literal
Decimal(num, den) == FDiv(ToDouble(num), ToDouble(den))

\* acc += s[1]; acc += s[2]; ... in this order
RECURSIVE FSumFrom(_, _)
FSumFrom(acc, s) ==
    IF s = <<>> THEN acc ELSE FSumFrom(FAdd(acc, Head(s)), Tail(s))

\* std::accumulate(s.begin(), s.end(), 0.0)
FSum(s) == FSumFrom(Zero, s)

(* Program constants *)

CONSISTENCY_WEIGHT == Decimal(4, 10)

AVERAGE_WEIGHT == Decimal(6, 10)

-----------------------------------------------------------------------------
(* Data model *)

\* a data row of the input file, its numeric columns already converted
Row(name, team, position, season, stats) ==
    [player_name |-> name, team |-> team, position |-> position, season |-> season,
     matches_played |-> stats[1], goals |-> stats[2], assists |-> stats[3],
     rating |-> stats[4]]

Rows(names, teams, positions, seasons, statsSet) ==
    {Row(n, t, p, s, st) : n \in names, t \in teams, p \in positions,
                           s \in seasons, st \in statsSet}

\* the PlayerStats that CSVParser::parse builds from one row
PlayerStats(row) ==
    [player_name |-> row.player_name, team |-> row.team,
     position |-> row.position, season |-> row.season,
     matches_played |-> row.matches_played,
     goals |-> row.goals, assists |-> row.assists,
     goals_per_match |-> IF row.matches_played > 0
                         THEN FDiv(ToDouble(row.goals), ToDouble(row.matches_played))
                         ELSE Zero,
     rating |-> ToDouble(row.rating)]

\* CSVParser::parse on a file whose rows all convert
parse(file) == [i \in 1..Len(file) |-> PlayerStats(file[i])]

-----------------------------------------------------------------------------
(* CSVParser on the text of a file *)

\* A line is the sequence of its tokens as split_line returns them, <<>> for an
\* empty line. A token is <<"num", n>>, the text of the number n, or
\* <<"text", k>>, a text that is no number, k its rank among the strings.
NumTok(n) == <<"num", n>>

TextTok(k) == <<"text", k>>

\* the highest index parse reads of a row: tokens[15]
LastField == 15

\* the indices that parse converts with std::stoi and std::stod
NumericFields == 5..LastField

\* std::stoi and std::stod throw on a text that is no number
Converts(token) == token[1] = "num"

\* what a read past the end of a row's token vector may leave in an int field
GarbageInts == {0, 7}

\* the record of a row whose tokens[0 .. 15] exist and convert
RecordOf(tokens) ==
    PlayerStats(Row(tokens[2][2], tokens[3][2], tokens[4][2], tokens[5][2],
                    <<tokens[6][2], tokens[8][2], tokens[9][2], tokens[16][2]>>))

\* the tokens parse reads of a shorter row, every read past its end giving
\* the text of g
Padded(tokens, g) ==
    [i \in 1..(LastField + 1) |-> IF i <= Len(tokens) THEN tokens[i] ELSE NumTok(g)]

\* the body of the try block for one row that passed the size test: a record
\* is pushed ("record"), an exception skips the row ("skip"), or the read
\* past the end of the token vector ends the program ("crash"). The fields
\* are read in index order, so a token that does not convert is met before
\* any index past the end.
ParseRow(tokens) ==
    IF \E k \in NumericFields : k < Len(tokens) /\ ~Converts(tokens[k + 1])
    THEN {[kind |-> "skip", out_of_bounds |-> FALSE]}
    ELSE IF Len(tokens) > LastField
    THEN {[kind |-> "record", out_of_bounds |-> FALSE, player |-> RecordOf(tokens)]}
    ELSE {[kind |-> "crash", out_of_bounds |-> TRUE],
          [kind |-> "skip", out_of_bounds |-> TRUE]}
         \cup {[kind |-> "record", out_of_bounds |-> TRUE,
                 player |-> RecordOf(Padded(tokens, g))] : g \in GarbageInts}

\* the while loop of parse from line i on: `headers` is the size of the header,
\* -1 while first_line holds; the outcomes are the players returned and
\* whether a row was read past its end, or the crash
RECURSIVE ParseLoop(_, _, _, _, _)
ParseLoop(lines, i, headers, players, out_of_bounds) ==
    IF i > Len(lines)
    THEN {[crashed |-> FALSE, players |-> players, out_of_bounds |-> out_of_bounds]}
    ELSE IF lines[i] = <<>> THEN ParseLoop(lines, i + 1, headers, players, out_of_bounds)
    ELSE IF headers < 0
    THEN ParseLoop(lines, i + 1, Len(lines[i]), players, out_of_bounds)
    ELSE IF Len(lines[i]) < headers
    THEN ParseLoop(lines, i + 1, headers, players, out_of_bounds)
    ELSE UNION {
           IF row.kind = "crash"
           THEN {[crashed |-> TRUE, players |-> players, out_of_bounds |-> TRUE]}
           ELSE ParseLoop(lines, i + 1, headers,
                          IF row.kind = "record" THEN Append(players, row.player)
                                                 ELSE players,
                          out_of_bounds \/ row.out_of_bounds) :
           row \in ParseRow(lines[i]) }

\* CSVParser::parse on a file that opens and holds these lines
parse_lines(lines) == ParseLoop(lines, 1, 0 - 1, <<>>, FALSE)

EmptyMap == <<>>

\* m[k].push_back(v): operator[] inserts an empty vector under a missing key
PushBack(m, k, v) ==
    IF k \in DOMAIN m THEN [m EXCEPT ![k] = Append(@, v)]
    ELSE m @@ (k :> <<v>>)

\* m[k] read through operator[]: the map afterwards
Subscript(m, k) == IF k \in DOMAIN m THEN m ELSE m @@ (k :> <<>>)

\* the loop of index_players from record i on
RECURSIVE IndexLoop(_, _, _)
IndexLoop(idx, players, i) ==
    IF i > Len(players) THEN idx
    ELSE IndexLoop(
           [by_name |-> PushBack(idx.by_name, players[i].player_name, players[i]),
            by_team |-> PushBack(idx.by_team, players[i].team, players[i])],
           players, i + 1)

\* index_players without its two clear() calls
index_players_no_clear(prev, players) == IndexLoop(prev, players, 1)

\* index_players without the push_back into players_by_team
index_players_names_only(prev, players) ==
    [by_name |-> IndexLoop([by_name |-> EmptyMap, by_team |-> EmptyMap],
                           players, 1).by_name,
     by_team |-> EmptyMap]

\* index_players: both maps are cleared, then rebuilt from all_players
index_players(prev, players) ==
    IndexLoop([by_name |-> EmptyMap, by_team |-> EmptyMap], players, 1)

-----------------------------------------------------------------------------
(* TimeSeriesData and StatisticalAnalyzer *)

\* TimeSeriesData::mean and StatisticalAnalyzer::calculate_mean
mean(values) ==
    IF values = <<>> THEN Zero ELSE FDiv(FSum(values), ToDouble(Len(values)))

\* TimeSeriesData::std_dev and StatisticalAnalyzer::calculate_std_dev
std_dev(values) ==
    IF Len(values) < 2 THEN Zero
    ELSE LET avg == mean(values)
             sq_sum == FSum([i \in DOMAIN values |->
                               FMul(FSub(values[i], avg), FSub(values[i], avg))])
         IN  FSqrt(FDiv(sq_sum, ToDouble(Len(values) - 1)))

\* TimeSeriesData::coefficient_of_variation: (std_dev() / avg) * 100.0
coefficient_of_variation(values) ==
    LET avg == mean(values)
    IN  IF avg = Zero THEN Zero
        ELSE FMul(FDiv(std_dev(values), avg), ToDouble(100))

\* StatisticalAnalyzer::calculate_correlation
calculate_correlation(x, y) ==
    IF Len(x) # Len(y) \/ Len(x) < 2 THEN Zero
    ELSE LET mean_x == mean(x)
             mean_y == mean(y)
             diff_x == [i \in DOMAIN x |-> FSub(x[i], mean_x)]
             diff_y == [i \in DOMAIN x |-> FSub(y[i], mean_y)]
             numerator == FSum([i \in DOMAIN x |-> FMul(diff_x[i], diff_y[i])])
             sum_sq_x == FSum([i \in DOMAIN x |-> FMul(diff_x[i], diff_x[i])])
             sum_sq_y == FSum([i \in DOMAIN x |-> FMul(diff_y[i], diff_y[i])])
             denominator == FSqrt(FMul(sum_sq_x, sum_sq_y))
         IN  IF denominator = Zero THEN Zero
             ELSE FDiv(numerator, denominator)

\* the indices i + j that the inner loop of calculate_rolling_average reads
WindowIndices(i, window_size) == {i + j : j \in 0..(window_size - 1)}

\* sum / window_size after the inner loop over the window starting at index i
WindowAverage(data, i, window_size) ==
    FDiv(FSum([j \in 1..window_size |-> data[i + j]]), ToDouble(window_size))

\* the outer loop stopping one window early: i < data.size() - window_size
WindowStartsButLast(data, window_size) == 0..(Len(data) - window_size - 1)

\* the values of i of the outer loop: 0 .. data.size() - window_size
WindowStarts(data, window_size) == 0..(Len(data) - window_size)

\* StatisticalAnalyzer::calculate_rolling_average: the result and the indices
\* of data that were read
calculate_rolling_average(data, window_size) ==
    IF Len(data) < ToSizeT(window_size) THEN [result |-> <<>>, reads |-> {}]
    ELSE LET starts == WindowStarts(data, window_size)
         IN  [result |-> [k \in 1..Cardinality(starts) |->
                            WindowAverage(data, k - 1, window_size)],
              reads |-> UNION {WindowIndices(i, window_size) : i \in starts}]

\* std::floor(a) and std::ceil(a) of a finite a of small magnitude, as integers
Floor(a) ==
    IF a[2] >= 0 THEN a[1] * 2 ^ a[2]
    ELSE IF 0 - a[2] > Precision THEN (IF a[1] < 0 THEN 0 - 1 ELSE 0)
    ELSE a[1] \div 2 ^ (0 - a[2])

Ceil(a) == 0 - Floor(FNeg(a))

\* the pairs <<i, j>> with data[i] < data[j]
LessPairs(data) ==
    {<<i, j>> \in (DOMAIN data) \X (DOMAIN data) : FLess(data[i], data[j])}

\* std::sort(data.begin(), data.end())
SortDoubles(data) == SortOutcomes(data, LessPairs(data))

\* calculate_median once data is sorted
MedianOfSorted(data) ==
    LET n == Len(data)
    IN  IF n % 2 = 0 THEN FDiv(FAdd(data[n \div 2], data[n \div 2 + 1]), ToDouble(2))
        ELSE data[n \div 2 + 1]

\* data[n/2] in place of the mean of the two middle elements
MedianOfSortedUpper(data) == data[Len(data) \div 2 + 1]

\* StatisticalAnalyzer::calculate_median: the results the sort allows
calculate_median(data) ==
    IF data = <<>> THEN {Zero}
    ELSE {MedianOfSorted(sorted) : sorted \in SortDoubles(data)}

\* the 0-based indices calculate_percentile reads of its sorted copy of n
\* elements: lower and upper
PercentileReads(n, percentile) ==
    LET index == FMul(FDiv(percentile, ToDouble(100)), ToDouble(n - 1))
    IN  {ToSizeT(Floor(index)), ToSizeT(Ceil(index))}

\* the percentile without interpolation: the element at upper
PercentileOfSortedAtUpper(data, percentile) ==
    LET index == FMul(FDiv(percentile, ToDouble(100)), ToDouble(Len(data) - 1))
    IN  data[ToSizeT(Ceil(index)) + 1]

\* calculate_percentile once data is sorted, for 0 <= percentile <= 100
PercentileOfSorted(data, percentile) ==
    LET index == FMul(FDiv(percentile, ToDouble(100)), ToDouble(Len(data) - 1))
        lower == ToSizeT(Floor(index))
        upper == ToSizeT(Ceil(index))
        weight == FSub(index, ToDouble(lower))
    IN  IF lower = upper THEN data[lower + 1]
        ELSE FAdd(FMul(data[lower + 1], FSub(ToDouble(1), weight)),
                  FMul(data[upper + 1], weight))

\* StatisticalAnalyzer::calculate_percentile: the results the sort allows
calculate_percentile(data, percentile) ==
    IF data = <<>> THEN {Zero}
    ELSE {PercentileOfSorted(sorted, percentile) : sorted \in SortDoubles(data)}

-----------------------------------------------------------------------------
(* PerformanceAnalyzer: the queries, each the set of results it may return *)

Metrics == {"rating", "goals", "assists", "goals_per_match"}

\* the value get_player_time_series pushes for one record
MetricValue(stat, metric) ==
    CASE metric = "rating" -> stat.rating
      [] metric = "goals" -> ToDouble(stat.goals)
      [] metric = "assists" -> ToDouble(stat.assists)
      [] metric = "goals_per_match" -> stat.goals_per_match

\* the loop pushing 0.0 for a metric name it does not know
ProjectUnknownAsZero(player_seasons, player_name, metric) ==
    [player_name |-> player_name,
     metric_name |-> metric,
     seasons |-> [i \in DOMAIN player_seasons |-> player_seasons[i].season],
     values |-> [i \in DOMAIN player_seasons |->
                   IF metric \in Metrics THEN MetricValue(player_seasons[i], metric)
                   ELSE Zero]]

\* the loop of get_player_time_series over the sorted copy
Project(player_seasons, player_name, metric) ==
    [player_name |-> player_name,
     metric_name |-> metric,
     seasons |-> [i \in DOMAIN player_seasons |-> player_seasons[i].season],
     values |-> IF metric \in Metrics
                THEN [i \in DOMAIN player_seasons |->
                        MetricValue(player_seasons[i], metric)]
                ELSE <<>>]

\* get_player_time_series without its sort: a comparator that orders nothing
SeasonKeysUnsorted(recs) == {}

\* the comparator of the sort in get_player_time_series: a.season < b.season
SeasonKeys(recs) ==
    {<<i, j>> \in (DOMAIN recs) \X (DOMAIN recs) : recs[i].season < recs[j].season}

\* the lookup answering an unknown name with the records of every player
get_player_time_series_of_all(player_name, metric) ==
    LET found == IF player_name \in DOMAIN players_by_name
                 THEN players_by_name[player_name] ELSE all_players
    IN  {Project(player_seasons, player_name, metric) :
           player_seasons \in SortOutcomes(found, SeasonKeys(found))}

get_player_time_series(player_name, metric) ==
    IF player_name \notin DOMAIN players_by_name
    THEN {[player_name |-> player_name, metric_name |-> metric,
           seasons |-> <<>>, values |-> <<>>]}
    ELSE {Project(player_seasons, player_name, metric) :
            player_seasons \in SortOutcomes(players_by_name[player_name],
                                            SeasonKeys(players_by_name[player_name]))}

\* ConsistencyMetrics(): the zeroed record
NoMetrics(player_name) ==
    [player_name |-> player_name, average_rating |-> Zero, std_deviation |-> Zero,
     consistency_score |-> Zero, cv_percentage |-> Zero, seasons_played |-> 0]

\* the score growing with the variation: std::min(100.0, cv_percentage)
ConsistencyScoreOfVariation(cv_percentage) == FMin(ToDouble(100), cv_percentage)

\* 100.0 - std::min(100.0, cv_percentage)
ConsistencyScore(cv_percentage) ==
    FSub(ToDouble(100), FMin(ToDouble(100), cv_percentage))

\* calculate_consistency after its call of get_player_time_series returned ts
ConsistencyOf(player_name, ts) ==
    IF ts.values = <<>> THEN NoMetrics(player_name)
    ELSE LET cv_percentage == coefficient_of_variation(ts.values)
         IN  [player_name |-> player_name,
              average_rating |-> mean(ts.values),
              std_deviation |-> std_dev(ts.values),
              cv_percentage |-> cv_percentage,
              seasons_played |-> Len(ts.values),
              consistency_score |-> ConsistencyScore(cv_percentage)]

calculate_consistency(player_name) ==
    {ConsistencyOf(player_name, ts) : ts \in get_player_time_series(player_name, "rating")}

\* the test with >= 1 for >= 2
EligibleFromOne(player_name) == Len(players_by_name[player_name]) >= 1

\* the test of get_all_consistency_metrics on one entry of players_by_name
Eligible(player_name) == Len(players_by_name[player_name]) >= 2

\* the loop of get_all_consistency_metrics over the keys still to visit
RECURSIVE AllMetricsLoop(_)
AllMetricsLoop(keys) ==
    IF keys = <<>> THEN {<<>>}
    ELSE IF Eligible(Head(keys))
         THEN {<<m>> \o rest : m \in calculate_consistency(Head(keys)),
                               rest \in AllMetricsLoop(Tail(keys))}
         ELSE AllMetricsLoop(Tail(keys))

get_all_consistency_metrics == AllMetricsLoop(KeysAsc(DOMAIN players_by_name))

\* an int that was never assigned holds any value
IndeterminateInts == {0 - 1, 1}

\* the empty std::string
EmptyString == 0

\* ranking.score
Score(average_rating, consistency_score) ==
    FAdd(FMul(average_rating, AVERAGE_WEIGHT),
         FMul(consistency_score, CONSISTENCY_WEIGHT))

\* the ranking taking its position from the player's record of the earliest season
RankingOfEarliestSeason(metrics, rank) ==
    LET recs == players_by_name[metrics.player_name]
        earliest == CHOOSE i \in DOMAIN recs :
                      \A j \in DOMAIN recs : recs[i].season <= recs[j].season
    IN  [rank |-> rank,
         player_name |-> metrics.player_name,
         position |-> recs[earliest].position,
         score |-> Score(metrics.average_rating, metrics.consistency_score),
         average_rating |-> metrics.average_rating,
         consistency_score |-> metrics.consistency_score,
         seasons_played |-> metrics.seasons_played]

\* the PerformanceRanking built from one ConsistencyMetrics, its rank still unassigned
Ranking(metrics, rank) ==
    [rank |-> rank,
     player_name |-> metrics.player_name,
     position |-> IF metrics.player_name \in DOMAIN players_by_name
                     /\ players_by_name[metrics.player_name] # <<>>
                  THEN players_by_name[metrics.player_name][1].position
                  ELSE EmptyString,
     score |-> Score(metrics.average_rating, metrics.consistency_score),
     average_rating |-> metrics.average_rating,
     consistency_score |-> metrics.consistency_score,
     seasons_played |-> metrics.seasons_played]

\* the sort with std::less for std::greater
ScoreKeysAscending(rankings) ==
    {<<i, j>> \in (DOMAIN rankings) \X (DOMAIN rankings) :
       FLess(rankings[i].score, rankings[j].score)}

\* the sort with a comparator that orders nothing
ScoreKeysUnsorted(rankings) == {}

\* the comparator of the sort in get_top_consistent_players:
\* std::greater, that is operator>, that is score > other.score
ScoreKeys(rankings) ==
    {<<i, j>> \in (DOMAIN rankings) \X (DOMAIN rankings) :
       FLess(rankings[j].score, rankings[i].score)}

\* the rank loop assigning i for i + 1
AssignRanksFromZero(rankings, top_n) ==
    [i \in DOMAIN rankings |->
       IF i - 1 < ToSizeT(top_n) THEN [rankings[i] EXCEPT !.rank = i - 1]
       ELSE rankings[i]]

\* the rank loop: rankings[i].rank = i + 1 while i < size and i < size_t(top_n)
AssignRanks(rankings, top_n) ==
    [i \in DOMAIN rankings |->
       IF i - 1 < ToSizeT(top_n) THEN [rankings[i] EXCEPT !.rank = i]
       ELSE rankings[i]]

\* if (rankings.size() > size_t(top_n)) rankings.resize(top_n)
Truncate(rankings, top_n) ==
    IF Len(rankings) > ToSizeT(top_n) THEN SubSeq(rankings, 1, top_n)
    ELSE rankings

get_top_consistent_players(top_n) ==
    UNION {
      UNION {
        {Truncate(AssignRanks(sorted, top_n), top_n) :
           sorted \in SortOutcomes([i \in DOMAIN all_metrics |->
                                      Ranking(all_metrics[i], ranks[i])],
                                   ScoreKeys([i \in DOMAIN all_metrics |->
                                      Ranking(all_metrics[i], ranks[i])]))} :
        ranks \in [DOMAIN all_metrics -> IndeterminateInts]} :
      all_metrics \in get_all_consistency_metrics}

\* the metrics get_position_averages groups
PositionMetrics == {"rating", "goals", "assists"}

\* the averages taken over the records of every position alike
get_position_averages_of_all(metric) ==
    IF metric \notin PositionMetrics THEN EmptyMap
    ELSE [position \in {all_players[i].position : i \in DOMAIN all_players} |->
            mean([i \in DOMAIN all_players |-> MetricValue(all_players[i], metric)])]

get_position_averages(metric) ==
    IF metric \notin PositionMetrics THEN EmptyMap
    ELSE [position \in {all_players[i].position : i \in DOMAIN all_players} |->
            mean(LET of_position == SelectSeq(all_players,
                                              LAMBDA r : r.position = position)
                 IN  [i \in DOMAIN of_position |->
                        MetricValue(of_position[i], metric)])]

\* the keys of team_season_map
TeamSeasonKeys == {<<all_players[i].team, all_players[i].season>> : i \in DOMAIN all_players}

\* operator< of std::pair, as <=
PairLeq(a, b) == a[1] < b[1] \/ (a[1] = b[1] /\ a[2] <= b[2])

\* the keys of a std::map of pairs in iteration order
RECURSIVE PairsAsc(_)
PairsAsc(K) ==
    IF K = {} THEN <<>>
    ELSE LET m == CHOOSE x \in K : \A y \in K : PairLeq(x, y)
         IN  <<m>> \o PairsAsc(K \ {m})

\* players_by_team after the subscripts of the second loop over `keys`
RECURSIVE TeamIndexAfter(_, _)
TeamIndexAfter(m, keys) ==
    IF keys = <<>> THEN m
    ELSE TeamIndexAfter(Subscript(m, Head(keys)[1]), Tail(keys))

\* players_by_team[perf.team_name].size()
PlayerCount(team_name) == Len(Subscript(players_by_team, team_name)[team_name])

\* the entry with its rating averaged over the season's records alone
TeamPerformancePerSeason(key) ==
    LET recs == SelectSeq(all_players, LAMBDA r : r.team = key[1] /\ r.season = key[2])
        rating_sum == FSum([i \in DOMAIN recs |-> recs[i].rating])
    IN  [team_name |-> key[1],
         season |-> key[2],
         total_goals |-> SumSeq([i \in DOMAIN recs |-> recs[i].goals]),
         total_assists |-> SumSeq([i \in DOMAIN recs |-> recs[i].assists]),
         total_matches |-> SumSeq([i \in DOMAIN recs |-> recs[i].matches_played]),
         average_rating |-> FDiv(rating_sum, ToDouble(Len(recs))),
         win_rate |-> Zero]

\* one entry of get_team_performance_by_season
TeamPerformance(key) ==
    LET recs == SelectSeq(all_players, LAMBDA r : r.team = key[1] /\ r.season = key[2])
        rating_sum == FSum([i \in DOMAIN recs |-> recs[i].rating])
        player_count == PlayerCount(key[1])
    IN  [team_name |-> key[1],
         season |-> key[2],
         total_goals |-> SumSeq([i \in DOMAIN recs |-> recs[i].goals]),
         total_assists |-> SumSeq([i \in DOMAIN recs |-> recs[i].assists]),
         total_matches |-> SumSeq([i \in DOMAIN recs |-> recs[i].matches_played]),
         average_rating |-> IF player_count > 0
                            THEN FDiv(rating_sum, ToDouble(player_count))
                            ELSE rating_sum,
         win_rate |-> Zero]

get_team_performance_by_season ==
    LET keys == PairsAsc(TeamSeasonKeys)
    IN  [i \in DOMAIN keys |-> TeamPerformance(keys[i])]

\* the inner loop of calculate_player_correlation: the first j with seasons2[j] = season
FirstMatch(seasons2, season) ==
    LET js == {j \in DOMAIN seasons2 : seasons2[j] = season}
    IN  IF js = {} THEN 0 ELSE CHOOSE j \in js : \A k \in js : j <= k

\* the loops pairing by position: values1[i] with values2[i]
CommonLoopByPosition(ts1, ts2, i) ==
    [k \in 1..Min(Len(ts1.values), Len(ts2.values)) |->
       <<ts1.values[k], ts2.values[k]>>]

\* the outer loop from index i on: the pairs <<values1[i], values2[j]>> pushed
RECURSIVE CommonLoop(_, _, _)
CommonLoop(ts1, ts2, i) ==
    IF i > Len(ts1.seasons) THEN <<>>
    ELSE LET j == FirstMatch(ts2.seasons, ts1.seasons[i])
         IN  (IF j = 0 THEN <<>> ELSE <<<<ts1.values[i], ts2.values[j]>>>>)
             \o CommonLoop(ts1, ts2, i + 1)

CorrelationOf(ts1, ts2) ==
    IF ts1.values = <<>> \/ ts2.values = <<>> THEN Zero
    ELSE LET common == CommonLoop(ts1, ts2, 1)
         IN  calculate_correlation([i \in DOMAIN common |-> common[i][1]],
                                   [i \in DOMAIN common |-> common[i][2]])

calculate_player_correlation(player1, player2, metric) ==
    {CorrelationOf(ts1, ts2) : ts1 \in get_player_time_series(player1, metric),
                               ts2 \in get_player_time_series(player2, metric)}

get_all_player_names == KeysAsc(DOMAIN players_by_name)

-----------------------------------------------------------------------------
(* Operations *)

Init ==
    /\ all_players = <<>>
    /\ players_by_name = EmptyMap
    /\ players_by_team = EmptyMap
    /\ pc = "constructed"
    /\ ret = [op |-> "PerformanceAnalyzer", arg |-> <<>>, val |-> <<>>]

\* load_data(filename), the file holding the rows `file`
LoadData(file) ==
    LET players == parse(file)
        idx == index_players([by_name |-> players_by_name,
                             by_team |-> players_by_team], players)
    IN  /\ all_players' = players
        /\ players_by_name' = idx.by_name
        /\ players_by_team' = idx.by_team
        /\ pc' = "loaded"
        /\ ret' = [op |-> "load_data", arg |-> <<>>,
                   val |-> [loaded |-> Len(players), replaced |-> Len(all_players)]]

\* get_player_time_series(player_name, metric)
GetPlayerTimeSeries(player_name, metric) ==
    /\ \E ts \in get_player_time_series(player_name, metric) :
         ret' = [op |-> "get_player_time_series",
                 arg |-> <<player_name, metric>>, val |-> ts]
    /\ UNCHANGED <<all_players, players_by_name, players_by_team, pc>>

\* calculate_consistency(player_name)
CalculateConsistency(player_name) ==
    /\ \E metrics \in calculate_consistency(player_name) :
         ret' = [op |-> "calculate_consistency",
                 arg |-> <<player_name>>, val |-> metrics]
    /\ UNCHANGED <<all_players, players_by_name, players_by_team, pc>>

\* get_all_consistency_metrics()
GetAllConsistencyMetrics ==
    /\ \E all_metrics \in get_all_consistency_metrics :
         ret' = [op |-> "get_all_consistency_metrics",
                 arg |-> <<>>, val |-> all_metrics]
    /\ UNCHANGED <<all_players, players_by_name, players_by_team, pc>>

\* get_top_consistent_players(top_n)
GetTopConsistentPlayers(top_n) ==
    /\ \E rankings \in get_top_consistent_players(top_n) :
         ret' = [op |-> "get_top_consistent_players",
                 arg |-> <<top_n>>, val |-> rankings]
    /\ UNCHANGED <<all_players, players_by_name, players_by_team, pc>>

\* get_position_averages(metric)
GetPositionAverages(metric) ==
    /\ ret' = [op |-> "get_position_averages",
               arg |-> <<metric>>, val |-> get_position_averages(metric)]
    /\ UNCHANGED <<all_players, players_by_name, players_by_team, pc>>

\* get_team_performance_by_season(): the subscript players_by_team[...] of its
\* second loop is a write when the key is missing
GetTeamPerformanceBySeason ==
    /\ ret' = [op |-> "get_team_performance_by_season",
               arg |-> <<>>, val |-> get_team_performance_by_season]
    /\ players_by_team' = TeamIndexAfter(players_by_team, PairsAsc(TeamSeasonKeys))
    /\ UNCHANGED <<all_players, players_by_name, pc>>

\* calculate_player_correlation(player1, player2, metric)
CalculatePlayerCorrelation(player1, player2, metric) ==
    /\ \E r \in calculate_player_correlation(player1, player2, metric) :
         ret' = [op |-> "calculate_player_correlation",
                 arg |-> <<player1, player2, metric>>, val |-> r]
    /\ UNCHANGED <<all_players, players_by_name, players_by_team, pc>>

\* get_all_player_names()
GetAllPlayerNames ==
    /\ ret' = [op |-> "get_all_player_names",
               arg |-> <<>>, val |-> get_all_player_names]
    /\ UNCHANGED <<all_players, players_by_name, players_by_team, pc>>

\* a client that loads one of `files` once, as main does before its menu loop
LoadOnce(files) == pc = "constructed" /\ \E file \in files : LoadData(file)

-----------------------------------------------------------------------------
(* Inputs *)

\* the player names asked about: 1 and 2 occur in files, 3 in none
QueryNames == 1..3

\* the metric names asked about: the four known ones and one unknown
QueryMetrics == Metrics \cup {"minutes"}

\* the top_n asked for, a negative one included
TopNs == (0 - 1)..MaxTopN

\* matches_played, goals, assists, rating of a row
PlainStats == {<<2, 1, 1, 70>>}

RankStats == {<<2, 1, 1, 0 - 40>>, <<2, 1, 1, 40>>}

MixedStats == {<<0, 1, 2, 40>>, <<2, 3, 1, 80>>}

StoreFiles == SeqsUpTo(Rows({1, 2}, {1, 2}, {1}, {1}, PlainStats), MaxStoreRows)

\* files whose i-th row is of season i: each row a season of its own
RankFiles ==
    {[i \in DOMAIN f |-> Row(f[i][1], 1, 1, i, f[i][2])] :
       f \in SeqsUpTo({1, 2} \X RankStats, MaxRankRows)}

TeamFiles == SeqsUpTo(Rows({1}, {1, 2}, {1}, {1, 2}, MixedStats), MaxTeamRows)

SeriesFiles == SeqsUpTo(Rows({1, 2}, {1}, {1}, {1, 2}, MixedStats), MaxSeriesRows)

\* the ratings of the steady player and of the erratic player, season by season
ExampleA == <<80, 82, 84, 86>>

ExampleB == <<70, 95, 60, 90>>

\* the first seasons of either player
ExampleSeries ==
    {SubSeq(ratings, 1, Min(n, Len(ratings))) :
       ratings \in {ExampleA, ExampleB}, n \in 0..MaxExampleRows}

\* the rows of one player with these ratings, the i-th of season i
RatingRows(name, ratings) ==
    [i \in DOMAIN ratings |-> Row(name, 1, 1, i, <<2, 1, 1, ratings[i]>>)]

\* files of player 1 and player 2, each a series of ExampleSeries
ExampleFiles ==
    {RatingRows(1, ratings1) \o RatingRows(2, ratings2) :
       ratings1 \in ExampleSeries, ratings2 \in ExampleSeries}

\* the season of the i-th row of a file of PositionFiles: 2, 3, 1, 2, 3, 1, ...
SeasonOfRow(i) == (i % 3) + 1

\* files of two players in two positions, their rows not in order of season
PositionFiles ==
    {[i \in DOMAIN f |-> Row(f[i][1], 1, f[i][2], SeasonOfRow(i), f[i][3])] :
       f \in SeqsUpTo({1, 2} \X {1, 2} \X MixedStats, MaxPositionRows)}

\* n rows of one player in file order of season, a season possibly repeated
SeasonRows(name, seasons, n) ==
    {f \in [1..n -> Rows({name}, {1}, {1}, seasons, MixedStats)] :
       \A i \in 1..(n - 1) : f[i].season <= f[i + 1].season}

\* files listing player 1 in seasons 1..3, then player 2 in seasons 2..3
CorrFiles ==
    UNION {{f1 \o f2 : f1 \in SeasonRows(1, {1, 2, 3}, k[1]),
                       f2 \in SeasonRows(2, {2, 3}, k[2])} :
           k \in {k \in (0..MaxCorrRows) \X (0..MaxCorrRows) : k[1] + k[2] <= MaxCorrRows}}

\* files listing player 1 and then player 2, each in seasons 1..2 with a
\* season possibly repeated
SymFiles ==
    UNION {{f1 \o f2 : f1 \in SeasonRows(1, {1, 2}, k[1]),
                       f2 \in SeasonRows(2, {1, 2}, k[2])} :
           k \in (0..MaxPlayerRows) \X (0..MaxPlayerRows)}

\* the metric names asked about under SpecCorr: a known one and an unknown one
CorrMetrics == {"rating", "minutes"}

-----------------------------------------------------------------------------
(* Specifications *)

\* the analyzer as a library: any loads and queries in any order
Next ==
    \/ \E file \in StoreFiles : LoadData(file)
    \/ \E n \in QueryNames, m \in {"rating", "minutes"} : GetPlayerTimeSeries(n, m)
    \/ \E n \in QueryNames : CalculateConsistency(n)
    \/ GetAllConsistencyMetrics
    \/ \E top_n \in TopNs : GetTopConsistentPlayers(top_n)
    \/ \E m \in {"rating", "minutes"} : GetPositionAverages(m)
    \/ GetTeamPerformanceBySeason
    \/ \E n1 \in QueryNames, n2 \in QueryNames, m \in {"rating", "minutes"} :
         CalculatePlayerCorrelation(n1, n2, m)
    \/ GetAllPlayerNames

Spec == Init /\ [][Next]_vars

\* The specifications below take one query at a time: a file is loaded and one
\* query is asked of the store it left. A query reads the store alone.
Loaded == ret.op = "load_data"

\* consistency and ranking over one loaded file
NextRank ==
    \/ LoadOnce(RankFiles)
    \/ Loaded /\ \E n \in QueryNames : CalculateConsistency(n)
    \/ Loaded /\ GetAllConsistencyMetrics
    \/ Loaded /\ \E top_n \in TopNs : GetTopConsistentPlayers(top_n)

SpecRank == Init /\ [][NextRank]_vars

\* team aggregates over one loaded file
NextTeam ==
    \/ LoadOnce(TeamFiles)
    \/ Loaded /\ GetTeamPerformanceBySeason

SpecTeam == Init /\ [][NextTeam]_vars

\* time series over one loaded file
NextSeries ==
    \/ LoadOnce(SeriesFiles)
    \/ Loaded /\ \E n \in QueryNames, m \in QueryMetrics : GetPlayerTimeSeries(n, m)

SpecSeries == Init /\ [][NextSeries]_vars

\* the queries of one or two players over one loaded file
NextCorr ==
    \/ LoadOnce(CorrFiles)
    \/ Loaded /\ \E n \in QueryNames, m \in CorrMetrics : GetPlayerTimeSeries(n, m)
    \/ Loaded /\ \E n \in QueryNames : CalculateConsistency(n)
    \/ Loaded /\ \E n1 \in QueryNames, n2 \in QueryNames, m \in CorrMetrics :
                   CalculatePlayerCorrelation(n1, n2, m)

SpecCorr == Init /\ [][NextCorr]_vars

\* the correlation of two players, asked in either order, over one loaded file
NextSym ==
    \/ LoadOnce(SymFiles)
    \/ Loaded /\ \E n1 \in {1, 2}, n2 \in {1, 2} :
                   CalculatePlayerCorrelation(n1, n2, "rating")

SpecSym == Init /\ [][NextSym]_vars

\* the queries that report positions over one loaded file
NextPosition ==
    \/ LoadOnce(PositionFiles)
    \/ Loaded /\ \E m \in QueryMetrics : GetPositionAverages(m)
    \/ Loaded /\ \E top_n \in 1..2 : GetTopConsistentPlayers(top_n)

SpecPosition == Init /\ [][NextPosition]_vars

\* consistency and ranking of the steady and the erratic player
NextExample ==
    \/ LoadOnce(ExampleFiles)
    \/ Loaded /\ \E n \in QueryNames : CalculateConsistency(n)
    \/ Loaded /\ GetAllConsistencyMetrics
    \/ Loaded /\ \E top_n \in TopNs : GetTopConsistentPlayers(top_n)

SpecExample == Init /\ [][NextExample]_vars

\* std::numeric_limits<double>::max() and ::denorm_min()
Huge == <<2 ^ Precision - 1, EMax>>

Tiny == <<1, EMin>>

\* the elements of the vectors given to StatisticalAnalyzer: finite doubles
DataValues ==
    {Zero, ToDouble(1), ToDouble(3), ToDouble(0 - 2), ToDouble(43),
     Decimal(1, 10), Huge, Tiny}

DataVectors == SeqsUpTo(DataValues, MaxDataLen)

\* the percentiles asked of calculate_percentile
Percentiles == {0, 25, 50, 100}

\* main holding a vector, before any call
InitStats ==
    /\ all_players = <<>>
    /\ players_by_name = EmptyMap
    /\ players_by_team = EmptyMap
    /\ pc = "constructed"
    /\ \E data \in DataVectors : ret = [op |-> "main", arg |-> <<data>>, val |-> <<>>]

Given == ret.op = "main"

\* StatisticalAnalyzer::calculate_std_dev(data), TimeSeriesData{.., data}.std_dev()
CalculateStdDev ==
    /\ ret' = [op |-> "calculate_std_dev", arg |-> ret.arg, val |-> std_dev(ret.arg[1])]
    /\ UNCHANGED <<all_players, players_by_name, players_by_team, pc>>

\* TimeSeriesData{.., data}.coefficient_of_variation()
CoefficientOfVariation ==
    /\ ret' = [op |-> "coefficient_of_variation", arg |-> ret.arg,
               val |-> coefficient_of_variation(ret.arg[1])]
    /\ UNCHANGED <<all_players, players_by_name, players_by_team, pc>>

\* StatisticalAnalyzer::calculate_median(data)
CalculateMedian ==
    /\ \E median \in calculate_median(ret.arg[1]) :
         ret' = [op |-> "calculate_median", arg |-> ret.arg, val |-> median]
    /\ UNCHANGED <<all_players, players_by_name, players_by_team, pc>>

\* StatisticalAnalyzer::calculate_percentile(data, percentile)
CalculatePercentile(percentile) ==
    /\ \E value \in calculate_percentile(ret.arg[1], ToDouble(percentile)) :
         ret' = [op |-> "calculate_percentile", arg |-> <<ret.arg[1], percentile>>,
                 val |-> value]
    /\ UNCHANGED <<all_players, players_by_name, players_by_team, pc>>

\* a row of n tokens for this player, every column holding what parse expects
\* of it except column `bad` (0 for none), which holds a text
RowLine(name, n, bad) ==
    [i \in 1..n |->
       IF i = bad THEN TextTok(9)
       ELSE IF i = 2 THEN TextTok(name)
       ELSE IF i <= 5 THEN TextTok(1)
       ELSE IF i = 6 THEN NumTok(2)
       ELSE IF i = LastField + 1 THEN NumTok(70)
       ELSE NumTok(1)]

\* a header of n column names
HeaderLine(n) == [i \in 1..n |-> TextTok(i)]

\* the lines of the files: empty, headers of 2 and 16 columns, rows of 2, 15,
\* 16 and 17 tokens, whole or with a text in a numeric column
FileLines ==
    {<<>>, HeaderLine(2), HeaderLine(LastField + 1)}
    \cup {RowLine(name, n, 0) : name \in {1, 2}, n \in {2, LastField + 1}}
    \cup {RowLine(1, n, 0) : n \in {LastField, LastField + 2}}
    \cup {RowLine(1, n, bad) : n \in {LastField, LastField + 1}, bad \in {6, 13}}
    \cup {RowLine(1, LastField + 1, LastField + 1)}

ParseFiles == SeqsUpTo(FileLines, MaxFileLines)

\* CSVParser(filename).parse(), the file holding these lines
Parse(lines) ==
    /\ \E outcome \in parse_lines(lines) :
         /\ ret' = [op |-> "parse", arg |-> <<lines>>, val |-> outcome]
         /\ pc' = IF outcome.crashed THEN "crashed" ELSE pc
    /\ UNCHANGED <<all_players, players_by_name, players_by_team>>

\* one file parsed by a fresh CSVParser
NextParse == ret.op = "PerformanceAnalyzer" /\ \E lines \in ParseFiles : Parse(lines)

SpecParse == Init /\ [][NextParse]_vars

-----------------------------------------------------------------------------
(* main *)

\* std::cin is the characters not yet read and whether the stream is good().
\* The characters are the digits "1" and "8", the letter "x" and "\n".
Digits == {"1", "8"}

DigitValue(c) == IF c = "1" THEN 1 ELSE 8

RECURSIVE SkipWhitespace(_)
SkipWhitespace(chars) ==
    IF chars # <<>> /\ Head(chars) = "\n" THEN SkipWhitespace(Tail(chars)) ELSE chars

\* the digits at the head of chars read into a number that starts as `value`
RECURSIVE ReadDigits(_, _)
ReadDigits(chars, value) ==
    IF chars # <<>> /\ Head(chars) \in Digits
    THEN ReadDigits(Tail(chars), 10 * value + DigitValue(Head(chars)))
    ELSE [chars |-> chars, value |-> value]

\* what an int that was never assigned may hold
IndeterminateChoices == {0, 8}

\* std::cin >> choice, choice not initialised: the stream afterwards and the
\* values choice may hold. A stream that is not good, or that ends before a
\* token, leaves choice as it was; a token that is no number stores 0.
ReadChoice(cin) ==
    IF ~cin.good THEN [cin |-> cin, choices |-> IndeterminateChoices]
    ELSE LET chars == SkipWhitespace(cin.chars)
         IN  IF chars = <<>>
             THEN [cin |-> [chars |-> <<>>, good |-> FALSE],
                   choices |-> IndeterminateChoices]
             ELSE IF Head(chars) \notin Digits
             THEN [cin |-> [chars |-> chars, good |-> FALSE], choices |-> {0}]
             ELSE LET read == ReadDigits(chars, 0)
                  IN  [cin |-> [chars |-> read.chars, good |-> read.chars # <<>>],
                       choices |-> {read.value}]

\* std::cin.ignore() and std::cin.get(): one character is taken, and the stream
\* is no longer good once its end is met
TakeChar(cin) ==
    IF ~cin.good THEN cin
    ELSE IF cin.chars = <<>> THEN [chars |-> <<>>, good |-> FALSE]
    ELSE [chars |-> Tail(cin.chars), good |-> TRUE]

\* display_top_consistent_players: the rankings it prints and whether it
\* reads rankings[0] past the end of an empty list
display_top_consistent_players ==
    {[rankings |-> rankings, out_of_bounds |-> rankings = <<>>] :
       rankings \in get_top_consistent_players(10)}

\* the files given to main: one that cannot be opened, an empty one, one
\* record, two records of one player
MainFiles ==
    {[opens |-> FALSE, rows |-> <<>>]}
    \cup {[opens |-> TRUE, rows |-> rows] :
            rows \in {<<>>, <<Row(1, 1, 1, 1, <<2, 1, 1, 70>>)>>,
                      <<Row(1, 1, 1, 1, <<2, 1, 1, 70>>),
                        Row(1, 1, 1, 2, <<2, 1, 1, 80>>)>>}}

MainInputs == SeqsUpTo(Digits \cup {"x", "\n"}, MaxInputLen)

\* the menus printed are counted modulo MaxMenus, which is more than a run
\* that ends prints
MaxMenus == MaxInputLen + 3

\* main about to load argv[1]
InitMain ==
    /\ all_players = <<>>
    /\ players_by_name = EmptyMap
    /\ players_by_team = EmptyMap
    /\ pc = "main"
    /\ \E file \in MainFiles, input \in MainInputs :
         ret = [op |-> "main", arg |-> <<file>>,
                val |-> [cin |-> [chars |-> input, good |-> TRUE], menus |-> 0,
                         choice |-> 0, out_of_bounds |-> FALSE]]

\* load_data(filename) on a file that may not open: what it leaves in the
\* three members and whether it throws. The constructor of CSVParser only
\* stores the name; parse() throws before anything is assigned.
load_data_clears_first(file) ==
    IF file.opens
    THEN LET players == parse(file.rows)
             idx == index_players([by_name |-> players_by_name,
                                   by_team |-> players_by_team], players)
         IN  [threw |-> FALSE, all_players |-> players,
              by_name |-> idx.by_name, by_team |-> idx.by_team]
    ELSE [threw |-> TRUE, all_players |-> <<>>,
          by_name |-> EmptyMap, by_team |-> EmptyMap]

load_data(file) ==
    IF file.opens
    THEN LET players == parse(file.rows)
             idx == index_players([by_name |-> players_by_name,
                                   by_team |-> players_by_team], players)
         IN  [threw |-> FALSE, all_players |-> players,
              by_name |-> idx.by_name, by_team |-> idx.by_team]
    ELSE [threw |-> TRUE, all_players |-> all_players,
          by_name |-> players_by_name, by_team |-> players_by_team]

\* analyzer.load_data(argv[1]) in main: the exception of a file that does not
\* open is caught in main, which returns 1
MainLoadData ==
    /\ pc = "main"
    /\ LET done == load_data(ret.arg[1])
       IN  /\ all_players' = done.all_players
           /\ players_by_name' = done.by_name
           /\ players_by_team' = done.by_team
           /\ pc' = IF done.threw THEN "exit_1" ELSE "menu"
           /\ ret' = [ret EXCEPT !.op = IF done.threw THEN "load_data_threw"
                                        ELSE "load_data"]

\* load_data(filename) called by a client that holds an analyzer, loaded or
\* not, and catches what it throws
ClientLoadData(file) ==
    /\ pc \in {"constructed", "loaded"}
    /\ LET done == load_data(file)
       IN  /\ all_players' = done.all_players
           /\ players_by_name' = done.by_name
           /\ players_by_team' = done.by_team
           /\ pc' = IF done.threw THEN pc ELSE "loaded"
           /\ ret' = [op |-> IF done.threw THEN "load_data_threw" ELSE "load_data",
                      arg |-> <<file>>,
                      val |-> [loaded |-> Len(done.all_players),
                               replaced |-> Len(all_players)]]

\* one turn of the while loop of main: the menu, the choice, its case, and
\* the wait for Enter after the cases 1 to 7. Of these only case 1 is taken
\* by the inputs of the model.
MenuTurn ==
    /\ pc = "menu"
    /\ LET read == ReadChoice(ret.val.cin)
       IN  \E choice \in read.choices :
             IF choice = 8
             THEN /\ pc' = "exit_0"
                  /\ ret' = [op |-> "menu", arg |-> ret.arg,
                             val |-> [ret.val EXCEPT !.cin = read.cin,
                                                     !.menus = (@ + 1) % MaxMenus,
                                                     !.choice = choice,
                                                     !.out_of_bounds = FALSE]]
             ELSE IF choice = 1
             THEN \E shown \in display_top_consistent_players :
                    \E crashes \in {b \in BOOLEAN : b => shown.out_of_bounds} :
                      /\ pc' = IF crashes THEN "crashed" ELSE "menu"
                      /\ ret' = [op |-> "menu", arg |-> ret.arg,
                                 val |-> [ret.val EXCEPT
                                            !.cin = IF crashes THEN read.cin
                                                    ELSE TakeChar(TakeChar(read.cin)),
                                            !.menus = (@ + 1) % MaxMenus,
                                            !.choice = choice,
                                            !.out_of_bounds = shown.out_of_bounds]]
             ELSE /\ pc' = "menu"
                  /\ ret' = [op |-> "menu", arg |-> ret.arg,
                             val |-> [ret.val EXCEPT !.cin = read.cin,
                                                     !.menus = (@ + 1) % MaxMenus,
                                                     !.choice = choice,
                                                     !.out_of_bounds = FALSE]]
    /\ UNCHANGED <<all_players, players_by_name, players_by_team>>

NextMain == MainLoadData \/ MenuTurn

SpecMain == InitMain /\ [][NextMain]_vars

\* main, and a client that calls load_data again and again
NextLoad == NextMain \/ \E file \in MainFiles : ClientLoadData(file)

SpecLoad == (Init \/ InitMain) /\ [][NextLoad]_vars

\* main is never suspended: a turn of the loop that can be taken is taken
SpecMainFair == SpecMain /\ WF_vars(NextMain)

\* main has returned or the program was ended
Terminated == pc \in {"exit_0", "exit_1", "crashed"}

\* the elements of the two vectors given to calculate_correlation
PairValues == {Zero, ToDouble(1), ToDouble(3), Decimal(1, 10), Huge, Tiny}

PairVectors == SeqsUpTo(PairValues, MaxPairLen)

\* main holding two vectors, before any call
InitPairs ==
    /\ all_players = <<>>
    /\ players_by_name = EmptyMap
    /\ players_by_team = EmptyMap
    /\ pc = "constructed"
    /\ \E x \in PairVectors, y \in PairVectors :
         ret = [op |-> "main", arg |-> <<x, y>>, val |-> <<>>]

\* StatisticalAnalyzer::calculate_correlation(x, y)
CalculateCorrelation ==
    /\ ret' = [op |-> "calculate_correlation", arg |-> ret.arg,
               val |-> calculate_correlation(ret.arg[1], ret.arg[2])]
    /\ UNCHANGED <<all_players, players_by_name, players_by_team, pc>>

NextPairs == Given /\ CalculateCorrelation

SpecPairs == InitPairs /\ [][NextPairs]_vars

\* the window sizes asked of calculate_rolling_average
Windows == (0 - 1)..MaxWindow

\* StatisticalAnalyzer::calculate_rolling_average(data, window_size)
CalculateRollingAverage(window_size) ==
    /\ ret' = [op |-> "calculate_rolling_average", arg |-> <<ret.arg[1], window_size>>,
               val |-> calculate_rolling_average(ret.arg[1], window_size)]
    /\ UNCHANGED <<all_players, players_by_name, players_by_team, pc>>

NextStats ==
    \/ Given /\ \E window_size \in Windows : CalculateRollingAverage(window_size)
    \/ Given /\ CalculateStdDev
    \/ Given /\ CoefficientOfVariation
    \/ Given /\ CalculateMedian
    \/ Given /\ \E percentile \in Percentiles : CalculatePercentile(percentile)

SpecStats == InitStats /\ [][NextStats]_vars

-----------------------------------------------------------------------------
(* Properties.  They read the primary sequence all_players directly. *)

\* the records of all_players with this player name, in parse order
RecordsOfName(name) == SelectSeq(all_players, LAMBDA r : r.player_name = name)

\* the records of all_players with this team, in parse order
RecordsOfTeam(team) == SelectSeq(all_players, LAMBDA r : r.team = team)

NamesPresent == {all_players[i].player_name : i \in DOMAIN all_players}

TeamsPresent == {all_players[i].team : i \in DOMAIN all_players}

\* the players with at least 2 records
EligibleNames == {n \in NamesPresent : Len(RecordsOfName(n)) >= 2}

\* the composite scores a player may be ranked with
ScoresOf(name) ==
    {FAdd(FMul(m.average_rating, AVERAGE_WEIGHT),
          FMul(m.consistency_score, CONSISTENCY_WEIGHT)) :
       m \in calculate_consistency(name)}

Injective(f) == \A i, j \in DOMAIN f : f[i] = f[j] => i = j

\* C1: after every completed load_data, a second load included, players_by_name
\* and players_by_team hold exactly the names and teams of all_players, each
\* mapped to the subsequence of all_players with that name or team in parse
\* order; nothing of an earlier load is left.
C1_IndicesAgreeAfterLoad ==
    ret.op = "load_data" =>
      /\ DOMAIN players_by_name = NamesPresent
      /\ \A n \in NamesPresent : players_by_name[n] = RecordsOfName(n)
      /\ DOMAIN players_by_team = TeamsPresent
      /\ \A t \in TeamsPresent : players_by_team[t] = RecordsOfTeam(t)

\* a load over an already loaded analyzer that left one name with two records
C1_Witness ==
    /\ ret.op = "load_data"
    /\ ret.val.replaced > 0
    /\ \E n \in DOMAIN players_by_name :
         /\ Len(players_by_name[n]) = 2
         /\ players_by_name[n][1] # players_by_name[n][2]

\* C2: every step that is not a load_data (every query, with any arguments)
\* leaves all_players, players_by_name and players_by_team as they were.
C2_QueriesLeaveStore ==
    [][ret'.op # "load_data" => UNCHANGED store]_vars

\* get_team_performance_by_season answered over two teams
C2_Witness ==
    /\ ret.op = "get_team_performance_by_season"
    /\ Len(ret.val) = 2
    /\ DOMAIN players_by_team = {1, 2}

\* C3: calculate_consistency of a player with exactly one record returns
\* seasons_played = 0.
C3_SingleRecordIsSentinel ==
    (/\ ret.op = "calculate_consistency"
     /\ Len(RecordsOfName(ret.arg[1])) = 1)
    => ret.val.seasons_played = 0

\* C4: for top_n >= 0 and k eligible players, get_top_consistent_players
\* returns min(top_n, k) entries and the entry at 0-based position i has
\* rank i + 1.
C4_TopCountAndRanks ==
    (ret.op = "get_top_consistent_players" /\ ret.arg[1] >= 0) =>
      /\ Len(ret.val) = Min(ret.arg[1], Cardinality(EligibleNames))
      /\ \A i \in DOMAIN ret.val : ret.val[i].rank = i

\* more asked for than there are eligible players: two entries for top_n = 3
C4_Witness ==
    /\ ret.op = "get_top_consistent_players"
    /\ ret.arg[1] = 3
    /\ Cardinality(EligibleNames) = 2
    /\ Len(ret.val) = 2

\* C5: every entry of get_top_consistent_players carries the score
\* average_rating * 0.6 + consistency_score * 0.4 of its player, the entries
\* are in non-increasing order of score, and no eligible player left out has a
\* score above that of the last entry.
C5_TopScoresDescending ==
    ret.op = "get_top_consistent_players" =>
      /\ \A i \in DOMAIN ret.val :
           /\ ret.val[i].score
                = FAdd(FMul(ret.val[i].average_rating, AVERAGE_WEIGHT),
                       FMul(ret.val[i].consistency_score, CONSISTENCY_WEIGHT))
           /\ \E m \in calculate_consistency(ret.val[i].player_name) :
                /\ m.average_rating = ret.val[i].average_rating
                /\ m.consistency_score = ret.val[i].consistency_score
      /\ \A i, j \in DOMAIN ret.val :
           i < j => FLeq(ret.val[j].score, ret.val[i].score)
      /\ ret.val # <<>> =>
           \A n \in EligibleNames \ {ret.val[i].player_name : i \in DOMAIN ret.val} :
             \A sc \in ScoresOf(n) : FLeq(sc, ret.val[Len(ret.val)].score)

\* top_n = 1 of two eligible players: the one left out scores strictly less
C5_Witness ==
    /\ ret.op = "get_top_consistent_players"
    /\ ret.arg[1] = 1
    /\ Len(ret.val) = 1
    /\ \E n \in EligibleNames : \A sc \in ScoresOf(n) : FLess(sc, ret.val[1].score)

\* C6: equally scored players are returned in ascending order of player name.
C6_TiesInNameOrder ==
    ret.op = "get_top_consistent_players" =>
      \A i, j \in DOMAIN ret.val :
        (i < j /\ ret.val[i].score = ret.val[j].score)
        => ret.val[i].player_name < ret.val[j].player_name

\* C6 as amended: the order of equally scored players is the sort's to choose.
\* Every result the call may return over the same store and top_n has the
\* same length and the same score at every position, and names another player
\* at a position only if that player's score is the same.
C6_TiesInSomeOrder ==
    ret.op = "get_top_consistent_players" =>
      \A other \in get_top_consistent_players(ret.arg[1]) :
        /\ Len(other) = Len(ret.val)
        /\ \A i \in DOMAIN ret.val :
             /\ other[i].score = ret.val[i].score
             /\ other[i].rank = ret.val[i].rank
             /\ ret.val[i].score \in ScoresOf(other[i].player_name)

\* two equally scored players returned in descending order of name
C6_Witness ==
    /\ ret.op = "get_top_consistent_players"
    /\ Len(ret.val) = 2
    /\ ret.val[1].score = ret.val[2].score
    /\ ret.val[1].player_name > ret.val[2].player_name

\* C7: calculate_consistency returns a consistency_score within 0..100 that
\* equals 100 - min(100, cv_percentage).
C7_ConsistencyScoreInRange ==
    ret.op = "calculate_consistency" =>
      /\ FLeq(Zero, ret.val.consistency_score)
      /\ FLeq(ret.val.consistency_score, ToDouble(100))
      /\ (ret.val.seasons_played > 0 =>
            ret.val.consistency_score
              = FSub(ToDouble(100), FMin(ToDouble(100), ret.val.cv_percentage)))

\* C8: get_all_consistency_metrics returns one entry for each player with at
\* least 2 records and none for any other; each entry is a result of
\* calculate_consistency of its player and has seasons_played >= 2.
C8_AllMetricsAreTheEligible ==
    ret.op = "get_all_consistency_metrics" =>
      /\ {ret.val[i].player_name : i \in DOMAIN ret.val} = EligibleNames
      /\ Len(ret.val) = Cardinality(EligibleNames)
      /\ \A i \in DOMAIN ret.val :
           /\ ret.val[i] \in calculate_consistency(ret.val[i].player_name)
           /\ ret.val[i].seasons_played >= 2

\* one player with two records and one with a single record: one entry
C8_Witness ==
    /\ ret.op = "get_all_consistency_metrics"
    /\ Len(ret.val) = 1
    /\ Cardinality(NamesPresent) = 2

C10_TimeSeriesIsSortedPermutation ==
    (/\ ret.op = "get_player_time_series"
     /\ ret.arg[1] \in NamesPresent
     /\ ret.arg[2] \in {"rating", "goals", "assists", "goals_per_match"})
    => LET recs == RecordsOfName(ret.arg[1])
           metric == ret.arg[2]
           value(r) == CASE metric = "rating" -> r.rating
                         [] metric = "goals" -> ToDouble(r.goals)
                         [] metric = "assists" -> ToDouble(r.assists)
                         [] metric = "goals_per_match" -> r.goals_per_match
       IN  /\ Len(ret.val.seasons) = Len(recs)
           /\ Len(ret.val.values) = Len(recs)
           /\ \E p \in [DOMAIN recs -> DOMAIN recs] :
                /\ Injective(p)
                /\ \A i \in DOMAIN recs :
                     /\ ret.val.seasons[i] = recs[p[i]].season
                     /\ ret.val.values[i] = value(recs[p[i]])
           /\ \A i, j \in DOMAIN ret.val.seasons :
                i < j => ret.val.seasons[i] <= ret.val.seasons[j]

\* a player whose file lists a later season first: the series has them in order
C10_Witness ==
    /\ ret.op = "get_player_time_series"
    /\ ret.arg[2] = "goals_per_match"
    /\ ret.arg[1] \in NamesPresent
    /\ LET recs == RecordsOfName(ret.arg[1])
       IN  /\ Len(recs) = 2
           /\ recs[1].season > recs[2].season
           /\ recs[1].goals_per_match # recs[2].goals_per_match

\* C11: the sort in get_player_time_series is stable: the values of a player's
\* records with the same season label appear in the series in the parse order
\* of those records.
C11_SortIsStable ==
    (/\ ret.op = "get_player_time_series"
     /\ ret.arg[1] \in NamesPresent
     /\ ret.arg[2] \in {"rating", "goals", "assists", "goals_per_match"})
    => LET recs == RecordsOfName(ret.arg[1])
       IN  \E p \in [DOMAIN recs -> DOMAIN recs] :
             /\ Injective(p)
             /\ \A i, j \in DOMAIN recs :
                  (i < j /\ recs[p[i]].season = recs[p[j]].season) => p[i] < p[j]
             /\ \A i \in DOMAIN recs :
                  /\ ret.val.seasons[i] = recs[p[i]].season
                  /\ ret.val.values[i] = MetricValue(recs[p[i]], ret.arg[2])

\* C12: for a known player and a metric name that is none of rating, goals,
\* assists, goals_per_match, get_player_time_series returns no values and one
\* season label per record of the player; calculate_player_correlation with
\* such a metric returns 0.0.
C12_UnknownMetricHasNoValues ==
    /\ (/\ ret.op = "get_player_time_series"
        /\ ret.arg[1] \in NamesPresent
        /\ ret.arg[2] \notin {"rating", "goals", "assists", "goals_per_match"})
       => LET recs == RecordsOfName(ret.arg[1])
          IN  /\ ret.val.values = <<>>
              /\ Len(ret.val.seasons) = Len(recs)
              /\ \A season \in 1..3 :
                   Cardinality({i \in DOMAIN ret.val.seasons : ret.val.seasons[i] = season})
                     = Cardinality({i \in DOMAIN recs : recs[i].season = season})
    /\ (/\ ret.op = "calculate_player_correlation"
        /\ ret.arg[3] \notin {"rating", "goals", "assists", "goals_per_match"})
       => ret.val = Zero

\* two players whose ratings correlate, asked for the correlation of "minutes"
C12_Witness ==
    /\ ret.op = "calculate_player_correlation"
    /\ ret.arg[3] = "minutes"
    /\ ret.val = Zero
    /\ Zero \notin calculate_player_correlation(ret.arg[1], ret.arg[2], "rating")

\* C13: for a player name that is not in the store, get_player_time_series
\* returns no seasons and no values, calculate_consistency returns every
\* numeric field zero and seasons_played = 0, and calculate_player_correlation
\* returns 0.0 when either of its names is unknown.
C13_UnknownPlayerIsEmpty ==
    /\ (ret.op = "get_player_time_series" /\ ret.arg[1] \notin NamesPresent)
       => ret.val.seasons = <<>> /\ ret.val.values = <<>>
    /\ (ret.op = "calculate_consistency" /\ ret.arg[1] \notin NamesPresent)
       => ret.val = [player_name |-> ret.arg[1], average_rating |-> Zero,
                     std_deviation |-> Zero, consistency_score |-> Zero,
                     cv_percentage |-> Zero, seasons_played |-> 0]
    /\ (/\ ret.op = "calculate_player_correlation"
        /\ (ret.arg[1] \notin NamesPresent \/ ret.arg[2] \notin NamesPresent))
       => ret.val = Zero

\* an unknown first name against a player whose ratings correlate with themselves
C13_Witness ==
    /\ ret.op = "calculate_player_correlation"
    /\ ret.arg[1] \notin NamesPresent
    /\ ret.arg[2] \in NamesPresent
    /\ ret.arg[3] = "rating"
    /\ all_players # <<>>
    /\ Zero \notin calculate_player_correlation(ret.arg[2], ret.arg[2], "rating")

\* the season labels both players have records of
CommonSeasons(player1, player2) ==
    {r.season : r \in Range(RecordsOfName(player1))}
      \cap {r.season : r \in Range(RecordsOfName(player2))}

\* the indices of ts1 whose label occurs in ts2, ascending
CommonIndices(ts1, ts2) ==
    KeysAsc({i \in DOMAIN ts1.seasons : ts1.seasons[i] \in Range(ts2.seasons)})

\* the least index of ts2 that carries the label of index i of ts1
Partner(ts1, ts2, i) ==
    CHOOSE j \in DOMAIN ts2.seasons :
      /\ ts2.seasons[j] = ts1.seasons[i]
      /\ \A k \in 1..(j - 1) : ts2.seasons[k] # ts1.seasons[i]

RecordsOfPosition(position) == SelectSeq(all_players, LAMBDA r : r.position = position)

PositionsPresent == {all_players[i].position : i \in DOMAIN all_players}

\* C15: for rating, goals and assists, get_position_averages returns one key
\* per position among the records, mapped to the mean of the metric over the
\* records of that position (their sum in parse order divided by their
\* number); for any other metric name, goals_per_match included, it returns
\* an empty map.
C15_PositionAveragesPerPosition ==
    ret.op = "get_position_averages" =>
      IF ret.arg[1] \in {"rating", "goals", "assists"}
      THEN /\ DOMAIN ret.val = PositionsPresent
           /\ \A position \in PositionsPresent :
                LET recs == RecordsOfPosition(position)
                    value(r) == CASE ret.arg[1] = "rating" -> r.rating
                                  [] ret.arg[1] = "goals" -> ToDouble(r.goals)
                                  [] ret.arg[1] = "assists" -> ToDouble(r.assists)
                IN  ret.val[position]
                      = FDiv(FSum([i \in DOMAIN recs |-> value(recs[i])]),
                             ToDouble(Len(recs)))
      ELSE ret.val = EmptyMap

\* goals averaged over two positions, one of two records, the averages differing
C15_Witness ==
    /\ ret.op = "get_position_averages"
    /\ ret.arg[1] = "goals"
    /\ DOMAIN ret.val = {1, 2}
    /\ Len(RecordsOfPosition(1)) = 2
    /\ RecordsOfPosition(1)[1].goals # RecordsOfPosition(1)[2].goals
    /\ ret.val[1] # ret.val[2]

RatingsOf(name) ==
    LET recs == RecordsOfName(name) IN [i \in DOMAIN recs |-> recs[i].rating]

\* the store holds ExampleA for player a and ExampleB for player b
IsExample(a, b) ==
    /\ RatingsOf(a) = [i \in DOMAIN ExampleA |-> ToDouble(ExampleA[i])]
    /\ RatingsOf(b) = [i \in DOMAIN ExampleB |-> ToDouble(ExampleB[i])]

IsConstant(data) == \A i \in DOMAIN data : data[i] = data[1]

\* C18: calculate_std_dev and std_dev are non-negative for every input, 0 for
\* fewer than two data points and 0 for every constant sequence; the
\* coefficient of variation is 0 for every constant sequence and whenever the
\* mean is exactly 0.
C18_NoSpreadNoDeviation ==
    /\ ret.op = "calculate_std_dev" =>
         /\ FLeq(Zero, ret.val)
         /\ Len(ret.arg[1]) < 2 => ret.val = Zero
         /\ IsConstant(ret.arg[1]) => ret.val = Zero
    /\ ret.op = "coefficient_of_variation" =>
         /\ IsConstant(ret.arg[1]) => ret.val = Zero
         /\ mean(ret.arg[1]) = Zero => ret.val = Zero

\* C19: for every non-empty vector calculate_percentile(xs, 50) equals
\* calculate_median(xs).
C19_MedianIsPercentile50 ==
    (ret.op = "calculate_median" /\ ret.arg[1] # <<>>) =>
      \A value \in calculate_percentile(ret.arg[1], ToDouble(50)) : FEq(value, ret.val)

\* C20: calculate_correlation(xs, xs) is 1 for every xs with at least two
\* distinct values, and calculate_correlation(xs, ys) equals
\* calculate_correlation(ys, xs).
C20_SelfCorrelationAndSymmetry ==
    ret.op = "calculate_correlation" =>
      /\ (ret.arg[1] = ret.arg[2] /\ ~IsConstant(ret.arg[1]))
           => FEq(ret.val, ToDouble(1))
      /\ FEq(ret.val, calculate_correlation(ret.arg[2], ret.arg[1]))

\* C21: calculate_correlation returns 0.0 when the two inputs have different
\* lengths, when they have fewer than 2 points, and when either input has
\* zero variance (all its values equal).
C21_NoVarianceNoCorrelation ==
    (/\ ret.op = "calculate_correlation"
     /\ \/ Len(ret.arg[1]) # Len(ret.arg[2])
        \/ Len(ret.arg[1]) < 2
        \/ IsConstant(ret.arg[1])
        \/ IsConstant(ret.arg[2]))
    => ret.val = Zero

\* C22: for every window >= 1, calculate_rolling_average(xs, window) returns
\* an empty sequence when len(xs) < window and otherwise len(xs) - window + 1
\* values, the i-th being the mean of xs[i .. i + window - 1]; no element
\* outside xs is read.
C22_RollingAverageIsWindowMeans ==
    (ret.op = "calculate_rolling_average" /\ ret.arg[2] >= 1) =>
      LET xs == ret.arg[1]
          window == ret.arg[2]
      IN  /\ Len(xs) < window => ret.val.result = <<>>
          /\ Len(xs) >= window =>
               /\ Len(ret.val.result) = Len(xs) - window + 1
               /\ \A i \in DOMAIN ret.val.result :
                    ret.val.result[i] = mean(SubSeq(xs, i, i + window - 1))
          /\ ret.val.reads \subseteq 0..(Len(xs) - 1)

\* two windows of two over three values that differ
C22_Witness ==
    /\ ret.op = "calculate_rolling_average"
    /\ ret.arg[2] = 2
    /\ Len(ret.arg[1]) = 3
    /\ Len(ret.val.result) = 2
    /\ ret.val.result[1] # ret.val.result[2]
    /\ ret.val.reads = {0, 1, 2}

\* the index of the header: the first non-empty line
HeaderIndex(lines) ==
    CHOOSE h \in DOMAIN lines :
      lines[h] # <<>> /\ \A i \in 1..(h - 1) : lines[i] = <<>>

\* a data row with at least as many fields as the header whose numeric
\* columns all exist and convert
IsValidRow(lines, i) ==
    /\ i > HeaderIndex(lines)
    /\ lines[i] # <<>>
    /\ Len(lines[i]) >= Len(lines[HeaderIndex(lines)])
    /\ \A k \in NumericFields : k < Len(lines[i]) /\ Converts(lines[i][k + 1])

\* the records of the valid rows, in file order
RECURSIVE ValidRecordsFrom(_, _)
ValidRecordsFrom(lines, i) ==
    IF i > Len(lines) THEN <<>>
    ELSE (IF IsValidRow(lines, i) THEN <<RecordOf(lines[i])>> ELSE <<>>)
         \o ValidRecordsFrom(lines, i + 1)

ValidRecords(lines) ==
    IF \A i \in DOMAIN lines : lines[i] = <<>> THEN <<>>
    ELSE ValidRecordsFrom(lines, 1)

\* C23: CSVParser::parse returns exactly the data rows (non-empty lines after
\* the first non-empty line, the header) that have at least as many fields as
\* the header and whose numeric columns all convert, in file order; a row
\* that fails either check contributes no record and does not stop later
\* rows from being loaded.
C23_ParseReturnsValidRows ==
    ret.op = "parse" =>
      /\ ~ret.val.crashed
      /\ ret.val.players = ValidRecords(ret.arg[1])

\* C27: for every input file, one whose header has fewer than 16 columns
\* included, every access tokens[0] .. tokens[15] in CSVParser::parse is
\* within the bounds of the row's token vector.
C27_TokensReadInBounds ==
    ret.op = "parse" => ~ret.val.out_of_bounds

\* C24: when the file cannot be opened, load_data throws to its caller and
\* leaves all_players, players_by_name and players_by_team exactly as they
\* were; main then exits with status 1 and has printed no menu.
C24_FailedLoadKeepsStore ==
    [][/\ (ret'.op \in {"load_data", "load_data_threw"} /\ ~ret'.arg[1].opens)
            => (/\ ret'.op = "load_data_threw"
                /\ UNCHANGED store
                /\ (pc = "main" => (pc' = "exit_1" /\ ret'.val.menus = 0)))
        /\ (pc = "exit_1" => pc' = "exit_1")]_vars

C24_Witness ==
    ret.op = "load_data_threw" /\ all_players # <<>>

C24_WitnessMain ==
    ret.op = "load_data_threw" /\ pc = "exit_1"

\* C25: display_top_consistent_players reads rankings[0] only when the
\* ranking list is non-empty: on a store with no eligible player it performs
\* no access past the end of the returned list.
C25_InsightReadsInBounds ==
    ret.op = "menu" => ~ret.val.out_of_bounds

\* C26: get_top_consistent_players(top_n) never returns more than
\* max(top_n, 0) entries: none for top_n = 0, and none for a negative top_n.
C26_AtMostTopN ==
    ret.op = "get_top_consistent_players"
    => Len(ret.val) <= (IF ret.arg[1] > 0 THEN ret.arg[1] ELSE 0)

\* C28: calculate_player_correlation(p1, p2, metric) equals
\* calculate_player_correlation(p2, p1, metric), also when a player has
\* several records with one season label.
C28_PlayerCorrelationSymmetric ==
    ret.op = "calculate_player_correlation"
    => \A r \in calculate_player_correlation(ret.arg[2], ret.arg[1], ret.arg[3]) :
         FEq(ret.val, r)

\* the least and the greatest element of a non-empty vector of finite doubles
MinOf(xs) == xs[CHOOSE i \in DOMAIN xs : \A j \in DOMAIN xs : FLeq(xs[i], xs[j])]

MaxOf(xs) == xs[CHOOSE i \in DOMAIN xs : \A j \in DOMAIN xs : FLeq(xs[j], xs[i])]

\* the vector and the percentile of a call of calculate_percentile, the value
\* it returned, and the sorted arrangement of the vector
PercentileReturned == ret.op = "calculate_percentile"

\* data[lower] * (1 - weight) + data[upper] * weight for the elements of the
\* 0-based ranks lower and lower + 1 of xs and weight = index - lower
Interpolated(xs, percentile) ==
    {LET index == FMul(FDiv(ToDouble(percentile), ToDouble(100)),
                       ToDouble(Len(xs) - 1))
         lower == Floor(index)
         weight == FSub(index, ToDouble(lower))
     IN  FAdd(FMul(sorted[lower + 1], FSub(ToDouble(1), weight)),
              FMul(sorted[lower + 2], weight)) :
       sorted \in SortDoubles(xs)}

\* C29 as stated: for non-empty xs and p in [0, 100] calculate_percentile
\* reads only the indices 0 .. len - 1 of the sorted copy, returns a value
\* between min(xs) and max(xs), min(xs) at p = 0 and max(xs) at p = 100, and
\* leaves the sequence of the caller unchanged; for empty xs it returns 0.0.
C29_PercentileBetweenMinAndMax ==
    [][ret'.op = "calculate_percentile" =>
         /\ ret'.arg[1] = ret.arg[1]
         /\ ret.arg[1] = <<>> => ret'.val = Zero
         /\ ret.arg[1] # <<>> =>
              /\ PercentileReads(Len(ret.arg[1]), ToDouble(ret'.arg[2]))
                   \subseteq 0..(Len(ret.arg[1]) - 1)
              /\ FLeq(MinOf(ret.arg[1]), ret'.val)
              /\ FLeq(ret'.val, MaxOf(ret.arg[1]))
              /\ ret'.arg[2] = 0 => FEq(ret'.val, MinOf(ret.arg[1]))
              /\ ret'.arg[2] = 100 => FEq(ret'.val, MaxOf(ret.arg[1]))]_vars

\* C29 as it holds: the indices read are within the sorted copy, the sequence
\* of the caller is unchanged, empty xs gives 0.0, p = 0 gives min(xs) and
\* p = 100 gives max(xs); when p lands on a rank the value is an element of
\* xs, and between two ranks it is the rounded interpolation of the elements
\* of the two adjacent ranks.
C29_PercentileAtRanks ==
    [][ret'.op = "calculate_percentile" =>
         /\ ret'.arg[1] = ret.arg[1]
         /\ ret.arg[1] = <<>> => ret'.val = Zero
         /\ ret.arg[1] # <<>> =>
              LET reads == PercentileReads(Len(ret.arg[1]), ToDouble(ret'.arg[2]))
              IN  /\ reads \subseteq 0..(Len(ret.arg[1]) - 1)
                  /\ ret'.arg[2] = 0 => FEq(ret'.val, MinOf(ret.arg[1]))
                  /\ ret'.arg[2] = 100 => FEq(ret'.val, MaxOf(ret.arg[1]))
                  /\ Cardinality(reads) = 1 =>
                       (/\ \E i \in DOMAIN ret.arg[1] : ret'.val = ret.arg[1][i]
                        /\ FLeq(MinOf(ret.arg[1]), ret'.val)
                        /\ FLeq(ret'.val, MaxOf(ret.arg[1])))
                  /\ Cardinality(reads) = 2 =>
                       ret'.val \in Interpolated(ret.arg[1], ret'.arg[2])]_vars

\* a percentile between two ranks of three distinct values, strictly between
\* the least and the greatest of them
C29_Witness ==
    /\ PercentileReturned
    /\ ret.arg[2] = 25
    /\ Len(ret.arg[1]) = 3
    /\ FLess(MinOf(ret.arg[1]), ret.val)
    /\ FLess(ret.val, MaxOf(ret.arg[1]))

\* C30: the menu loop of main terminates on every finite input stream: with
\* status 0 once choice 8 is read, and also when the input reaches its end or
\* holds a token that is no number where a choice is expected.
C30_MenuLoopTerminates == <>Terminated

=============================================================================
